---- MODULE Spec2Model ----
(***************************************************************************)
(* Model of janitor/chemistry.py: four table-in / table-out functions      *)
(* (smiles2mol, morgan_fingerprint, molecular_descriptors,                 *)
(* maccs_keys_fingerprint) applied by a caller to one pandas DataFrame.    *)
(*                                                                         *)
(* A table is a record                                                     *)
(*     [index |-> sequence of row labels,                                  *)
(*      columns |-> sequence of column labels,                             *)
(*      data |-> sequence, aligned with columns, of value sequences]       *)
(* Column labels are tagged: a str label carries its characters, an int    *)
(* label (positional column of a frame built from an array) its number.    *)
(* Python's None is the value PyNone, distinct from every str the caller   *)
(* can pass (the str "none" included).                                     *)
(*                                                                         *)
(* State: df is the caller's table; pre is that table as it was when the   *)
(* last call began; call holds the last call's arguments, raised the       *)
(* exception it raised (PyNone: none), ret what it returned and whether    *)
(* that is the caller's object or a new one, libcalls the number of rdkit  *)
(* calls it made; origin tells whether df is as the caller built it or as  *)
(* smiles2mol last left it.                                                *)
(***************************************************************************)
EXTENDS Integers, Sequences, FiniteSets, TLC

VARIABLES df, pre, call, raised, ret, libcalls, origin

vars == <<df, pre, call, raised, ret, libcalls, origin>>

----------------------------------------------------------------------------
(* Bounds of the model *)

MaxRows == 3

MaxNBits == 2

MaxRadius == 1

----------------------------------------------------------------------------
(* Python values *)

PyNone == "<None>"

StrLabel(s) == [tag |-> "str", str |-> s, int |-> 0]

IntLabel(i) == [tag |-> "int", str |-> <<>>, int |-> i]

SmilesCol == StrLabel(<<"s","m","i","l","e","s">>)

IdCol == StrLabel(<<"i","d">>)

MolsCol == StrLabel(<<"m","o","l","s">>)


SmilesStrings == {"CCO", "c1ccccc1", "not-a-smiles"}

ProgressArgs == {PyNone, "terminal", "notebook", "none"}

KindArgs == {"counts", "bits", "tanimoto"}

Range(n) == [i \in 1..n |-> i - 1]

(* Row indexes of the caller's table: the default one, and one with other  *)
(* labels (descending, with gaps).                                         *)
InputIndexes(n) == {Range(n), [i \in 1..n |-> 9 - 2 * i]}

----------------------------------------------------------------------------
(* pandas: the table operations the module uses *)

NumRows(t) == Len(t.index)

HasColumn(t, name) == \E k \in 1..Len(t.columns) : t.columns[k] = name

ColumnPos(t, name) == CHOOSE k \in 1..Len(t.columns) : t.columns[k] = name

GetColumn(t, name) == t.data[ColumnPos(t, name)]

SetColumn(t, name, values) ==
  IF HasColumn(t, name)
    THEN [t EXCEPT !.data[ColumnPos(t, name)] = values]
    ELSE [t EXCEPT !.columns = Append(t.columns, name),
                   !.data = Append(t.data, values)]

RECURSIVE KeptRows(_, _)
KeptRows(col, r) ==
  IF r > Len(col) THEN <<>>
  ELSE IF col[r] = PyNone THEN KeptRows(col, r + 1)
  ELSE <<r>> \o KeptRows(col, r + 1)

TakeRows(t, rows) ==
  [index |-> [i \in 1..Len(rows) |-> t.index[rows[i]]],
   columns |-> t.columns,
   data |-> [k \in 1..Len(t.columns) |->
               [i \in 1..Len(rows) |-> t.data[k][rows[i]]]]]

DropNa(t, subset) == TakeRows(t, KeptRows(GetColumn(t, subset), 1))

(* Variant: the row labels are left as they are. *)
ResetIndex_Keep(t) == t

ResetIndex(t) == [t EXCEPT !.index = Range(NumRows(t))]

FrameFromArray(arr) ==
  LET nrows == Len(arr)
      ncols == IF nrows = 0 THEN 0 ELSE Len(arr[1])
  IN  [index |-> Range(nrows),
       columns |-> [k \in 1..ncols |-> IntLabel(k - 1)],
       data |-> [k \in 1..ncols |-> [r \in 1..nrows |-> arr[r][k]]]]

FrameFromDict(feats, nrows) ==
  [index |-> Range(nrows),
   columns |-> [k \in 1..Len(feats) |-> StrLabel(feats[k].key)],
   data |-> [k \in 1..Len(feats) |-> feats[k].value]]

SetIndex(t, idx) == [t EXCEPT !.index = idx]

----------------------------------------------------------------------------
(* numpy *)

Ok(v) == [raised |-> PyNone, value |-> v]

Raise(e) == [raised |-> e, value |-> <<>>]

vstack(arrs) ==
  IF arrs = <<>> THEN Raise("ValueError")
  ELSE IF \E i \in 1..Len(arrs) : Len(arrs[i]) # Len(arrs[1])
    THEN Raise("ValueError")
  ELSE Ok(arrs)

----------------------------------------------------------------------------
(* rdkit: narrow model of the calls the module makes *)

MolFromSmiles(x) ==
  CASE x = "CCO" -> "ethanol"
    [] x = "c1ccccc1" -> "benzene"
    [] OTHER -> PyNone

(* Series.apply(lambda x: Chem.MolFromSmiles(x)) *)
ApplyMolFromSmiles(col) == [i \in 1..Len(col) |-> MolFromSmiles(col[i])]

AtomInvariants(m) ==
  IF m = "ethanol" THEN <<1, 2, 4>> ELSE <<3, 3, 3, 3, 3, 3>>

(* Atom-environment identifiers of a structure: one per atom and per       *)
(* radius 0..radius.                                                       *)
MorganEnvironments(m, radius) ==
  LET inv == AtomInvariants(m)
      n == Len(inv)
  IN  [j \in 1..(n * (radius + 1)) |->
         inv[((j - 1) % n) + 1] + 5 * ((j - 1) \div n)]

CountAt(envs, nbits, i) ==
  Cardinality({j \in 1..Len(envs) : envs[j] % nbits = i})

(* Sparse count vector: only the non-zero positions are stored. *)
GetHashedMorganFingerprint(m, radius, nbits) ==
  LET envs == MorganEnvironments(m, radius)
      on == {i \in 0..(nbits - 1) : CountAt(envs, nbits, i) > 0}
  IN  [length |-> nbits, elems |-> [i \in on |-> CountAt(envs, nbits, i)]]

(* Bit vector: the set of on-bits. *)
GetMorganFingerprintAsBitVect(m, radius, nbits) ==
  LET envs == MorganEnvironments(m, radius)
      on == {i \in 0..(nbits - 1) : CountAt(envs, nbits, i) > 0}
  IN  [length |-> nbits, elems |-> [i \in on |-> 1]]

MACCSLength == 167

GetMACCSKeysFingerprint(m) ==
  LET on == IF m = "ethanol" THEN {139, 153, 155, 157, 160, 164}
                             ELSE {162, 163, 165}
  IN  [length |-> MACCSLength, elems |-> [i \in on |-> 1]]

(* Resizes the array to the vector's length and fills it. *)
ConvertToNumpyArray(fp, arr) ==
  [k \in 1..fp.length |->
     IF (k - 1) \in DOMAIN fp.elems THEN fp.elems[k - 1] ELSE 0]

HeavyAtoms(m) == IF m = "ethanol" THEN 3 ELSE 6

(* A descriptor function: a scalar from a structure. *)
CalcDescriptor(f, m) == Len(f) * HeavyAtoms(m)

----------------------------------------------------------------------------
(* Python built-ins *)

RECURSIVE lstrip(_, _)
lstrip(s, chars) ==
  IF s # <<>> /\ Head(s) \in chars THEN lstrip(Tail(s), chars) ELSE s

RECURSIVE rstrip(_, _)
rstrip(s, chars) ==
  IF s # <<>> /\ s[Len(s)] \in chars
    THEN rstrip(SubSeq(s, 1, Len(s) - 1), chars)
    ELSE s

(* str.strip(chars): chars is a set of characters, removed at both ends. *)
strip(s, chars) == rstrip(lstrip(s, chars), chars)

CharSet(s) == {s[i] : i \in 1..Len(s)}

(* {key(x): x for x in xs}: a key keeps the place of its first occurrence *)
(* and the value of its last.                                              *)
DictComprehension(keys, values) ==
  LET n == Len(keys)
      firsts == {k \in 1..n : \A j \in 1..(k - 1) : keys[j] # keys[k]}
      last(k) == CHOOSE j \in 1..n :
                   keys[j] = keys[k] /\ \A i \in (j + 1)..n : keys[i] # keys[k]
      at(p) == CHOOSE k \in firsts : Cardinality({j \in firsts : j <= k}) = p
  IN  [p \in 1..Cardinality(firsts) |->
         [key |-> keys[at(p)], value |-> values[last(at(p))]]]

FirstNone(col) ==
  IF \E r \in 1..Len(col) : col[r] = PyNone
    THEN CHOOSE r \in 1..Len(col) :
           col[r] = PyNone /\ \A q \in 1..(r - 1) : col[q] # PyNone
    ELSE 0

----------------------------------------------------------------------------
(* janitor/chemistry.py *)

Outcome(e, t, r, n) == [raised |-> e, df |-> t, ret |-> r, libcalls |-> n]

NoReturn == [obj |-> "none", table |-> <<>>]

SameObject(t) == [obj |-> "df", table |-> t]

NewObject(t) == [obj |-> "new", table |-> t]

valid_progress == {"notebook", "terminal", PyNone}

(* Variant: rows with an absent structure are dropped whatever the flag. *)
smiles2mol_AlwaysDrop(t, smiles_col, mols_col, drop_nulls, progressbar) ==
  IF progressbar \notin valid_progress
    THEN Outcome("ValueError", t, NoReturn, 0)
  ELSE
    LET t1 == SetColumn(t, mols_col, ApplyMolFromSmiles(GetColumn(t, smiles_col)))
        t3 == ResetIndex(DropNa(t1, mols_col))
    IN  Outcome(PyNone, t3, SameObject(t3), NumRows(t))

(* Variant: dropna and reset_index rebind the local name instead of        *)
(* working in place, so the caller's table keeps its rows and labels.      *)
smiles2mol_Rebind(t, smiles_col, mols_col, drop_nulls, progressbar) ==
  IF progressbar \notin valid_progress
    THEN Outcome("ValueError", t, NoReturn, 0)
  ELSE
    LET t1 == SetColumn(t, mols_col, ApplyMolFromSmiles(GetColumn(t, smiles_col)))
        t2 == IF drop_nulls THEN DropNa(t1, mols_col) ELSE t1
        t3 == ResetIndex(t2)
    IN  Outcome(PyNone, t1, NewObject(t3), NumRows(t))

smiles2mol(t, smiles_col, mols_col, drop_nulls, progressbar) ==
  IF progressbar \notin valid_progress
    THEN Outcome("ValueError", t, NoReturn, 0)
  ELSE
    LET t1 == SetColumn(t, mols_col, ApplyMolFromSmiles(GetColumn(t, smiles_col)))
        t2 == IF drop_nulls THEN DropNa(t1, mols_col) ELSE t1
        t3 == ResetIndex(t2)
    IN  Outcome(PyNone, t3, SameObject(t3), NumRows(t))

acceptable_kinds == {"counts", "bits"}

MorganVector(m, radius, nbits, kind) ==
  IF kind = "bits"
    THEN GetMorganFingerprintAsBitVect(m, radius, nbits)
    ELSE GetHashedMorganFingerprint(m, radius, nbits)

morgan_fingerprint(t, mols_col, radius, nbits, kind) ==
  IF kind \notin acceptable_kinds
    THEN Outcome("ValueError", t, NoReturn, 0)
  ELSE IF ~HasColumn(t, mols_col)
    THEN Outcome("KeyError", t, NoReturn, 0)
  ELSE
    LET mols == GetColumn(t, mols_col)
        bad == FirstNone(mols)
        fps == [r \in 1..Len(mols) |-> MorganVector(mols[r], radius, nbits, kind)]
        np_fps == [r \in 1..Len(fps) |-> ConvertToNumpyArray(fps[r], <<0>>)]
        stacked == vstack(np_fps)
    IN  IF bad # 0
          THEN Outcome("ArgumentError", t, NoReturn, bad - 1)
        ELSE IF stacked.raised # PyNone
          THEN Outcome(stacked.raised, t, NoReturn, Len(mols))
        ELSE Outcome(PyNone, t,
                     NewObject(SetIndex(FrameFromArray(stacked.value), t.index)),
                     Len(mols))

descriptors ==
  << <<"C","a","l","c","C","h","i","0","n">>,
     <<"C","a","l","c","C","h","i","0","v">>,
     <<"C","a","l","c","C","h","i","1","n">>,
     <<"C","a","l","c","C","h","i","1","v">>,
     <<"C","a","l","c","C","h","i","2","n">>,
     <<"C","a","l","c","C","h","i","2","v">>,
     <<"C","a","l","c","C","h","i","3","n">>,
     <<"C","a","l","c","C","h","i","3","v">>,
     <<"C","a","l","c","C","h","i","4","n">>,
     <<"C","a","l","c","C","h","i","4","v">>,
     <<"C","a","l","c","E","x","a","c","t","M","o","l","W","t">>,
     <<"C","a","l","c","F","r","a","c","t","i","o","n","C","S","P","3">>,
     <<"C","a","l","c","H","a","l","l","K","i","e","r","A","l","p","h","a">>,
     <<"C","a","l","c","K","a","p","p","a","1">>,
     <<"C","a","l","c","K","a","p","p","a","2">>,
     <<"C","a","l","c","K","a","p","p","a","3">>,
     <<"C","a","l","c","L","a","b","u","t","e","A","S","A">>,
     <<"C","a","l","c","N","u","m","A","l","i","p","h","a","t","i","c","C","a","r","b","o","c","y","c","l","e","s">>,
     <<"C","a","l","c","N","u","m","A","l","i","p","h","a","t","i","c","H","e","t","e","r","o","c","y","c","l","e","s">>,
     <<"C","a","l","c","N","u","m","A","l","i","p","h","a","t","i","c","R","i","n","g","s">>,
     <<"C","a","l","c","N","u","m","A","m","i","d","e","B","o","n","d","s">>,
     <<"C","a","l","c","N","u","m","A","r","o","m","a","t","i","c","C","a","r","b","o","c","y","c","l","e","s">>,
     <<"C","a","l","c","N","u","m","A","r","o","m","a","t","i","c","H","e","t","e","r","o","c","y","c","l","e","s">>,
     <<"C","a","l","c","N","u","m","A","r","o","m","a","t","i","c","R","i","n","g","s">>,
     <<"C","a","l","c","N","u","m","A","t","o","m","S","t","e","r","e","o","C","e","n","t","e","r","s">>,
     <<"C","a","l","c","N","u","m","B","r","i","d","g","e","h","e","a","d","A","t","o","m","s">>,
     <<"C","a","l","c","N","u","m","H","B","A">>,
     <<"C","a","l","c","N","u","m","H","B","D">>,
     <<"C","a","l","c","N","u","m","H","e","t","e","r","o","a","t","o","m","s">>,
     <<"C","a","l","c","N","u","m","H","e","t","e","r","o","c","y","c","l","e","s">>,
     <<"C","a","l","c","N","u","m","L","i","p","i","n","s","k","i","H","B","A">>,
     <<"C","a","l","c","N","u","m","L","i","p","i","n","s","k","i","H","B","D">>,
     <<"C","a","l","c","N","u","m","R","i","n","g","s">>,
     <<"C","a","l","c","N","u","m","S","a","t","u","r","a","t","e","d","C","a","r","b","o","c","y","c","l","e","s">>,
     <<"C","a","l","c","N","u","m","S","a","t","u","r","a","t","e","d","H","e","t","e","r","o","c","y","c","l","e","s">>,
     <<"C","a","l","c","N","u","m","S","a","t","u","r","a","t","e","d","R","i","n","g","s">>,
     <<"C","a","l","c","N","u","m","S","p","i","r","o","A","t","o","m","s">>,
     <<"C","a","l","c","N","u","m","U","n","s","p","e","c","i","f","i","e","d","A","t","o","m","S","t","e","r","e","o","C","e","n","t","e","r","s">>,
     <<"C","a","l","c","T","P","S","A">> >>

descriptors_by_name ==
  DictComprehension(
    [k \in 1..Len(descriptors) |->
       strip(descriptors[k], CharSet(<<"C","a","l","c">>))],
    descriptors)

Features(d, mols) ==
  [k \in 1..Len(d) |->
     [key |-> d[k].key,
      value |-> [r \in 1..Len(mols) |-> CalcDescriptor(d[k].value, mols[r])]]]

molecular_descriptors(t, mols_col) ==
  LET d == descriptors_by_name
  IN  IF ~HasColumn(t, mols_col)
        THEN Outcome("KeyError", t, NoReturn, 0)
      ELSE
        LET mols == GetColumn(t, mols_col)
            bad == FirstNone(mols)
        IN  IF bad # 0
              THEN Outcome("ArgumentError", t, NoReturn, bad - 1)
            ELSE Outcome(PyNone, t,
                         NewObject(FrameFromDict(Features(d, mols), Len(mols))),
                         Len(d) * Len(mols))

maccs_keys_fingerprint(t, mols_col) ==
  IF ~HasColumn(t, mols_col)
    THEN Outcome("KeyError", t, NoReturn, 0)
  ELSE
    LET mols == GetColumn(t, mols_col)
        bad == FirstNone(mols)
        maccs == [r \in 1..Len(mols) |-> GetMACCSKeysFingerprint(mols[r])]
        np_maccs == [r \in 1..Len(maccs) |-> ConvertToNumpyArray(maccs[r], <<0>>)]
        stacked == vstack(np_maccs)
    IN  IF bad # 0
          THEN Outcome("ArgumentError", t, NoReturn, bad - 1)
        ELSE IF stacked.raised # PyNone
          THEN Outcome(stacked.raised, t, NoReturn, Len(mols))
        ELSE Outcome(PyNone, t,
                     NewObject(SetIndex(FrameFromArray(stacked.value), t.index)),
                     Len(mols))

----------------------------------------------------------------------------
(* The caller: one table, and calls of the four functions on it *)

Call(op, drop_nulls, progressbar, radius, nbits, kind) ==
  [op |-> op, drop_nulls |-> drop_nulls, progressbar |-> progressbar,
   radius |-> radius, nbits |-> nbits, kind |-> kind]

NoCall == Call("none", FALSE, PyNone, 0, 0, PyNone)

InputTable(labels, smiles, withMols) ==
  LET base == [index |-> labels,
               columns |-> <<SmilesCol, IdCol>>,
               data |-> <<smiles, [r \in 1..Len(smiles) |-> 100 + r]>>]
  IN  IF withMols THEN SetColumn(base, MolsCol, ApplyMolFromSmiles(smiles))
                  ELSE base

Init ==
  /\ \E n \in 0..MaxRows :
       \E labels \in InputIndexes(n), smiles \in [1..n -> SmilesStrings],
          withMols \in BOOLEAN :
            df = InputTable(labels, smiles, withMols)
  /\ pre = df
  /\ call = NoCall
  /\ raised = PyNone
  /\ ret = NoReturn
  /\ libcalls = 0
  /\ origin = "input"

CallSmiles2Mol ==
  \E drop_nulls \in BOOLEAN, progressbar \in ProgressArgs :
    \E out \in {smiles2mol(df, SmilesCol, MolsCol, drop_nulls, progressbar)} :
      /\ pre' = df
      /\ call' = Call("smiles2mol", drop_nulls, progressbar, 0, 0, PyNone)
      /\ df' = out.df
      /\ raised' = out.raised
      /\ ret' = out.ret
      /\ libcalls' = out.libcalls
      /\ origin' = IF out.raised # PyNone THEN origin
                   ELSE IF drop_nulls THEN "smiles2mol, nulls dropped"
                   ELSE "smiles2mol, nulls kept"

CallMorganFingerprint ==
  \E radius \in 0..MaxRadius, nbits \in 1..MaxNBits, kind \in KindArgs :
    \E out \in {morgan_fingerprint(df, MolsCol, radius, nbits, kind)} :
      /\ pre' = df
      /\ call' = Call("morgan_fingerprint", FALSE, PyNone, radius, nbits, kind)
      /\ df' = out.df
      /\ raised' = out.raised
      /\ ret' = out.ret
      /\ libcalls' = out.libcalls
      /\ UNCHANGED origin

CallMolecularDescriptors ==
  \E out \in {molecular_descriptors(df, MolsCol)} :
    /\ pre' = df
    /\ call' = Call("molecular_descriptors", FALSE, PyNone, 0, 0, PyNone)
    /\ df' = out.df
    /\ raised' = out.raised
    /\ ret' = out.ret
    /\ libcalls' = out.libcalls
    /\ UNCHANGED origin

CallMaccsKeysFingerprint ==
  \E out \in {maccs_keys_fingerprint(df, MolsCol)} :
    /\ pre' = df
    /\ call' = Call("maccs_keys_fingerprint", FALSE, PyNone, 0, 0, PyNone)
    /\ df' = out.df
    /\ raised' = out.raised
    /\ ret' = out.ret
    /\ libcalls' = out.libcalls
    /\ UNCHANGED origin

Next ==
  \/ CallSmiles2Mol
  \/ CallMorganFingerprint
  \/ CallMolecularDescriptors
  \/ CallMaccsKeysFingerprint

Spec == Init /\ [][Next]_vars

----------------------------------------------------------------------------
(* Vocabulary of the properties *)

Parses(x) == MolFromSmiles(x) # PyNone

HoldsStructures(t) ==
  /\ HasColumn(t, MolsCol)
  /\ \A r \in 1..NumRows(t) : GetColumn(t, MolsCol)[r] # PyNone

ParsedRows(t) == {r \in 1..NumRows(t) : Parses(GetColumn(t, SmilesCol)[r])}

(* The i-th row of t, in t's order, whose chemical string parses. *)
NthParsed(t, i) ==
  CHOOSE r \in ParsedRows(t) : Cardinality({q \in ParsedRows(t) : q <= r}) = i

Smiles2MolDone(drop) ==
  call.op = "smiles2mol" /\ call.drop_nulls = drop /\ raised = PyNone

(* The descriptor names of the docstring of molecular_descriptors. *)
DocstringNames ==
  << <<"C","h","i","0","n">>,
     <<"C","h","i","0","v">>,
     <<"C","h","i","1","n">>,
     <<"C","h","i","1","v">>,
     <<"C","h","i","2","n">>,
     <<"C","h","i","2","v">>,
     <<"C","h","i","3","n">>,
     <<"C","h","i","3","v">>,
     <<"C","h","i","4","n">>,
     <<"C","h","i","4","v">>,
     <<"E","x","a","c","t","M","o","l","W","t">>,
     <<"F","r","a","c","t","i","o","n","C","S","P","3">>,
     <<"H","a","l","l","K","i","e","r","A","l","p","h","a">>,
     <<"K","a","p","p","a","1">>,
     <<"K","a","p","p","a","2">>,
     <<"K","a","p","p","a","3">>,
     <<"L","a","b","u","t","e","A","S","A">>,
     <<"N","u","m","A","l","i","p","h","a","t","i","c","C","a","r","b","o","c","y","c","l","e","s">>,
     <<"N","u","m","A","l","i","p","h","a","t","i","c","H","e","t","e","r","o","c","y","c","l","e","s">>,
     <<"N","u","m","A","l","i","p","h","a","t","i","c","R","i","n","g","s">>,
     <<"N","u","m","A","m","i","d","e","B","o","n","d","s">>,
     <<"N","u","m","A","r","o","m","a","t","i","c","C","a","r","b","o","c","y","c","l","e","s">>,
     <<"N","u","m","A","r","o","m","a","t","i","c","H","e","t","e","r","o","c","y","c","l","e","s">>,
     <<"N","u","m","A","r","o","m","a","t","i","c","R","i","n","g","s">>,
     <<"N","u","m","A","t","o","m","S","t","e","r","e","o","C","e","n","t","e","r","s">>,
     <<"N","u","m","B","r","i","d","g","e","h","e","a","d","A","t","o","m","s">>,
     <<"N","u","m","H","B","A">>,
     <<"N","u","m","H","B","D">>,
     <<"N","u","m","H","e","t","e","r","o","a","t","o","m","s">>,
     <<"N","u","m","H","e","t","e","r","o","c","y","c","l","e","s">>,
     <<"N","u","m","L","i","p","i","n","s","k","i","H","B","A">>,
     <<"N","u","m","L","i","p","i","n","s","k","i","H","B","D">>,
     <<"N","u","m","R","i","n","g","s">>,
     <<"N","u","m","S","a","t","u","r","a","t","e","d","C","a","r","b","o","c","y","c","l","e","s">>,
     <<"N","u","m","S","a","t","u","r","a","t","e","d","H","e","t","e","r","o","c","y","c","l","e","s">>,
     <<"N","u","m","S","a","t","u","r","a","t","e","d","R","i","n","g","s">>,
     <<"N","u","m","S","p","i","r","o","A","t","o","m","s">>,
     <<"N","u","m","U","n","s","p","e","c","i","f","i","e","d","A","t","o","m","S","t","e","r","e","o","C","e","n","t","e","r","s">>,
     <<"T","P","S","A">> >>

----------------------------------------------------------------------------
(* C1: after smiles2mol with drop_nulls=True on a table of N rows of which *)
(* K do not parse, the table has N-K rows: the rows whose string parsed,   *)
(* in their original order, each with a structure in the new column, and   *)
(* the row index is 0..N-K-1.                                              *)
C1_DropNullsKeepsParsedRows ==
  Smiles2MolDone(TRUE) =>
    LET N == NumRows(pre)
        K == Cardinality({r \in 1..N : ~Parses(GetColumn(pre, SmilesCol)[r])})
    IN  /\ NumRows(df) = N - K
        /\ df.index = Range(N - K)
        /\ HasColumn(df, MolsCol)
        /\ \A i \in 1..NumRows(df) :
             /\ GetColumn(df, SmilesCol)[i]
                  = GetColumn(pre, SmilesCol)[NthParsed(pre, i)]
             /\ GetColumn(df, IdCol)[i] = GetColumn(pre, IdCol)[NthParsed(pre, i)]
             /\ GetColumn(df, MolsCol)[i] # PyNone
             /\ GetColumn(df, MolsCol)[i]
                  = MolFromSmiles(GetColumn(pre, SmilesCol)[NthParsed(pre, i)])

C1_Witness ==
  /\ Smiles2MolDone(TRUE)
  /\ NumRows(pre) >= 2
  /\ pre.index # Range(NumRows(pre))
  /\ Cardinality(ParsedRows(pre)) = NumRows(pre) - 1
  /\ ~Parses(GetColumn(pre, SmilesCol)[1])
  /\ NumRows(df) = NumRows(pre) - 1

(* C2: after smiles2mol with drop_nulls=False the table has its N rows in  *)
(* the original order, and the new column is absent in exactly the rows    *)
(* whose string does not parse.                                            *)
C2_KeepNullsKeepsAllRows ==
  Smiles2MolDone(FALSE) =>
    /\ NumRows(df) = NumRows(pre)
    /\ GetColumn(df, SmilesCol) = GetColumn(pre, SmilesCol)
    /\ GetColumn(df, IdCol) = GetColumn(pre, IdCol)
    /\ HasColumn(df, MolsCol)
    /\ \A r \in 1..NumRows(df) :
         /\ (GetColumn(df, MolsCol)[r] = PyNone) <=> (r \notin ParsedRows(pre))
         /\ GetColumn(df, MolsCol)[r] = MolFromSmiles(GetColumn(pre, SmilesCol)[r])

C2_Witness ==
  /\ Smiles2MolDone(FALSE)
  /\ ~HasColumn(pre, MolsCol)
  /\ NumRows(df) >= 2
  /\ \E r \in 1..NumRows(df) : GetColumn(df, MolsCol)[r] = PyNone
  /\ \E r \in 1..NumRows(df) : GetColumn(df, MolsCol)[r] # PyNone

(* C3: smiles2mol raises ValueError exactly when progressbar is not None,  *)
(* "terminal" or "notebook", morgan_fingerprint raises ValueError exactly  *)
(* when kind is not "counts" or "bits"; a call that fails so has processed *)
(* no row, left the table as it was and returned nothing.                  *)
C3_ValueErrorIffInvalidArgument ==
  /\ call.op = "smiles2mol" =>
       ((raised = "ValueError")
          <=> (call.progressbar \notin {PyNone, "terminal", "notebook"}))
  /\ call.op = "morgan_fingerprint" =>
       ((raised = "ValueError") <=> (call.kind \notin {"counts", "bits"}))
  /\ (call.op \in {"smiles2mol", "morgan_fingerprint"} /\ raised = "ValueError") =>
       (libcalls = 0 /\ df = pre /\ ret = NoReturn)

(* C4: on a table whose mols column holds structures, morgan_fingerprint   *)
(* with nbits >= 1 and kind "counts" or "bits" returns a table with the    *)
(* input's row count and row index and nbits columns; with "bits" every    *)
(* entry is 0 or 1.                                                        *)
C4_MorganShapeAndIndex ==
  (/\ call.op = "morgan_fingerprint"
   /\ call.kind \in {"counts", "bits"}
   /\ call.nbits >= 1
   /\ HoldsStructures(pre)) =>
    /\ raised = PyNone
    /\ ret.obj = "new"
    /\ NumRows(ret.table) = NumRows(pre)
    /\ ret.table.index = pre.index
    /\ Len(ret.table.columns) = call.nbits
    /\ call.kind = "bits" =>
         \A k \in 1..Len(ret.table.data) : \A r \in 1..Len(ret.table.data[k]) :
           ret.table.data[k][r] \in {0, 1}

(* C5: on a table of structures with any row labels, molecular_descriptors *)
(* returns one row per structure, and the row index of the result is the   *)
(* row index of the input.                                                 *)
C5_DescriptorsKeepIndex ==
  (call.op = "molecular_descriptors" /\ HoldsStructures(pre)) =>
    /\ raised = PyNone
    /\ ret.obj = "new"
    /\ NumRows(ret.table) = NumRows(pre)
    /\ ret.table.index = pre.index

(* C6: the table molecular_descriptors returns has 39 columns, named as in *)
(* the docstring: each function name without its leading "Calc".           *)
C6_DescriptorColumnNames ==
  (call.op = "molecular_descriptors" /\ raised = PyNone) =>
    /\ Len(ret.table.columns) = 39
    /\ ret.table.columns = [k \in 1..Len(DocstringNames) |-> StrLabel(DocstringNames[k])]
    /\ \A k \in 1..Len(descriptors) :
         ret.table.columns[k] = StrLabel(SubSeq(descriptors[k], 5, Len(descriptors[k])))

(* C7: after smiles2mol with drop_nulls=False no row is dropped and every  *)
(* row keeps the row label it had.                                         *)
C7_KeepNullsKeepsLabels ==
  Smiles2MolDone(FALSE) =>
    /\ NumRows(df) = NumRows(pre)
    /\ df.index = pre.index

(* C8: on a table of structures, maccs_keys_fingerprint returns a new      *)
(* table with one row per structure, the input's row index, the same       *)
(* library-defined number of columns in every row, and none of the input's *)
(* columns.                                                                *)
C8_MaccsShapeAndIndex ==
  (call.op = "maccs_keys_fingerprint" /\ HoldsStructures(pre)) =>
    /\ raised = PyNone
    /\ ret.obj = "new"
    /\ NumRows(ret.table) = NumRows(pre)
    /\ ret.table.index = pre.index
    /\ Len(ret.table.columns) = MACCSLength
    /\ \A k \in 1..Len(ret.table.data) : Len(ret.table.data[k]) = NumRows(pre)
    /\ \A k \in 1..Len(ret.table.columns) : ~HasColumn(pre, ret.table.columns[k])

(* C9: a successful smiles2mol changes the caller's table in place and     *)
(* returns that table: the table has the structure column, with            *)
(* drop_nulls=True it has lost the unparseable rows, and in every row that *)
(* stays the values of the columns it had before are unchanged.            *)
C9_InPlaceAndFrame ==
  (call.op = "smiles2mol" /\ raised = PyNone) =>
    LET f(i) == IF call.drop_nulls THEN NthParsed(pre, i) ELSE i
    IN  /\ ret.obj = "df"
        /\ ret.table = df
        /\ HasColumn(df, MolsCol)
        /\ NumRows(df) = IF call.drop_nulls THEN Cardinality(ParsedRows(pre))
                                            ELSE NumRows(pre)
        /\ \A k \in 1..Len(pre.columns) :
             /\ df.columns[k] = pre.columns[k]
             /\ \A i \in 1..NumRows(df) : df.data[k][i] = pre.data[k][f(i)]

C9_Witness ==
  /\ call.op = "smiles2mol" /\ raised = PyNone /\ call.drop_nulls
  /\ ~HasColumn(pre, MolsCol)
  /\ NumRows(pre) >= 2
  /\ NumRows(df) = NumRows(pre) - 1
  /\ ret.obj = "df"

(* C10: on the table smiles2mol with drop_nulls=True has produced (also    *)
(* when every string was unparseable or there was no row), each of         *)
(* morgan_fingerprint, molecular_descriptors and maccs_keys_fingerprint    *)
(* completes without error and returns a table with that table's row count *)
(* and row index.                                                          *)
C10_PipelineSafe ==
  (/\ origin = "smiles2mol, nulls dropped"
   /\ call.op \in {"morgan_fingerprint", "molecular_descriptors",
                   "maccs_keys_fingerprint"}
   /\ call.op = "morgan_fingerprint" => call.kind \in {"counts", "bits"}) =>
    /\ HoldsStructures(pre)
    /\ raised = PyNone
    /\ NumRows(ret.table) = NumRows(df)
    /\ ret.table.index = df.index

====
